---- MODULE Spec2Model ----
(***************************************************************************)
(* A model of the AI circuit designer: the feed-forward network            *)
(* (models/simple_circuit_ai.py), the command-line entry point (main.py),  *)
(* the training script (train_simple.py) and the prompt heuristics and     *)
(* slider wiring of the web UI (web_ui.py), and the 3D scene builder       *)
(* (visualization/circuit_3d_engine.py, component_library.py).             *)
(*                                                                         *)
(* Tensor entries are modelled as exact integers.  A tensor of shape       *)
(* (n, w) is the record [n, w, rows]: the shape is kept beside the rows so *)
(* that an empty batch still has a width.                                  *)
(***************************************************************************)
EXTENDS Integers, Sequences, FiniteSets, TLC

\* ------------------------------------------------------------- bounds

\* Largest batch size the library client passes to forward.
MaxBatch == 2

\* Parameter settings 0..MaxSeed stand for the random initialisations.
MaxSeed == 1

\* Data sets 0..MaxData stand for the draws of torch.randn.
MaxData == 1

\* Largest number of values a caller of the visualizer passes.
MaxValues == 2

\* Calls a caller makes on one visualizer.
MaxCalls == 2

\* ------------------------------------------------ program constants

InSize == 5

HiddenSize == 10

OutSize == 5

NumSamples == 10

TargetWidth == 3

NumSteps == 20

ReportEvery == 5

SampleCount == 5

PrintedValues == 3

\* -------------------------------------------------------------- state

VARIABLES
    proc,        \* which script this process runs: "client", "main", "train", "ui", "viz"
    pc,          \* where the script is: "start", "running", "loop", "done", "raised"
    params,      \* the network parameters of the process (layer1, layer2, layer3)
    last,        \* the inference call of the current script run, or NoCall
    memo,        \* history: an earlier inference call of the client, or NoCall
    memoParams,  \* history: the parameters at that call, or <<>>
    since,       \* history: calls made after memo (0, 1, or 2 for two and more)
    step,        \* train: optimisation steps completed
    reports,     \* train: the loss reports printed so far
    inputs,      \* train: the synthetic inputs
    targets,     \* train: the synthetic targets
    design,      \* main, ui: the design output of this run, or NoBatch
    printed,     \* main: the 'Design Parameter' values printed
    prompt,      \* ui: the text area: the circuit word and the quantity phrase
    circuit_type,      \* ui: the circuit type detected in the prompt
    auto_suggestions,  \* ui: the slider defaults suggested by the prompt
    sliders,     \* ui: the value of each slider built, NoValue for one not built
    moved,       \* ui: the sliders that hold a value set by the user
    traces,      \* ui, viz: self.traces of the visualizer
    scene,       \* ui, viz: the figure the visualizer returned last, or NoScene
    ai_output,   \* ui, viz: the values passed to the visualizer's last call
    vizCalls     \* viz: calls made on the visualizer

vars == <<proc, pc, params, last, memo, memoParams, since, step, reports,
          inputs, targets, design, printed,
          prompt, circuit_type, auto_suggestions, sliders, moved,
          traces, scene, ai_output, vizCalls>>

vizVars == <<traces, scene, ai_output, vizCalls>>

uiVars == <<prompt, circuit_type, auto_suggestions, sliders, moved>>

\* ------------------------------------------------------------ tensors

NoBatch == [n |-> 0 - 1, w |-> 0 - 1, rows |-> <<>>]

\* The sequence f[1], ..., f[n], held as a tuple of its values.
Tuple(f, n) == SubSeq(f, 1, n)

\* The function f, held as the table of its values.
Table(f) == f @@ [k \in {} |-> 0]

\* torch.randn(n, w): draw k of a tensor of small values around zero.
Randn(n, w, k) ==
    [n |-> n, w |-> w,
     rows |-> Tuple([i \in 1..n |->
                 Tuple([j \in 1..w |-> ((3 * i + 2 * j + k) % 5) - 2], w)], n)]

\* nn.Linear(inF, outF): initialisation s of weight (outF x inF) and bias.
NewLinear(inF, outF, s) ==
    [inF |-> inF, outF |-> outF,
     W |-> Tuple([o \in 1..outF |->
              Tuple([i \in 1..inF |-> ((s + o + 2 * i + o * i) % 3) - 1], inF)], outF),
     b |-> Tuple([o \in 1..outF |-> ((s + 2 * o) % 3) - 1], outF)]

\* SimpleCircuitAI.__init__: the three layers, initialisation s.
NewSimpleCircuitAI(s) ==
    [layer1 |-> NewLinear(InSize, HiddenSize, s),
     layer2 |-> NewLinear(HiddenSize, HiddenSize, s + 1),
     layer3 |-> NewLinear(HiddenSize, OutSize, s + 2)]

ParamSettings == {NewSimpleCircuitAI(s) : s \in 0..MaxSeed}

RECURSIVE DotFrom(_, _, _)
DotFrom(u, v, i) ==
    IF i > Len(u) THEN 0 ELSE u[i] * v[i] + DotFrom(u, v, i + 1)

Dot(u, v) == DotFrom(u, v, 1)

Raised == [raised |-> TRUE, out |-> NoBatch]

\* A plausible slip: the affine map applied without the check of the feature
\* count, over the features both operands have.
LinearUnchecked(layer, x) ==
    [raised |-> FALSE,
     out |-> [n |-> x.n, w |-> layer.outF,
              rows |-> Tuple([r \in 1..x.n |->
                  Tuple([o \in 1..layer.outF |->
                      Dot(SubSeq(x.rows[r], 1, IF x.w < layer.inF THEN x.w ELSE layer.inF),
                          layer.W[o]) + layer.b[o]], layer.outF)], x.n)]]

\* nn.Linear.__call__: x @ W^T + b; a feature count other than inF raises
\* (mat1 and mat2 shapes cannot be multiplied), also for an empty batch.
Linear(layer, x) ==
    IF x.w # layer.inF
    THEN Raised
    ELSE [raised |-> FALSE,
          out |-> [n |-> x.n, w |-> layer.outF,
                   rows |-> Tuple([r \in 1..x.n |->
                       Tuple([o \in 1..layer.outF |->
                           Dot(layer.W[o], x.rows[r]) + layer.b[o]], layer.outF)], x.n)]]

\* A plausible slip: the activation left out.
ReluIdentity(x) == x

\* torch.relu: negative entries become zero, the others pass unchanged.
Relu(x) ==
    [x EXCEPT !.rows = Tuple([r \in 1..x.n |->
                           Tuple([j \in 1..x.w |->
                               IF x.rows[r][j] < 0 THEN 0 ELSE x.rows[r][j]], x.w)], x.n)]

\* A Python float literal num/den as a tensor entry of the model's integer grid.
Quantize(num, den) == num \div den

Widths == {InSize - 1, InSize, InSize + 1}

\* The batches a caller of the inference function passes: every batch size
\* 0..MaxBatch, the right feature count and the two next to it.
ClientBatches ==
    {Randn(n, w, k) : n \in 0..MaxBatch, w \in Widths, k \in 0..MaxData}

\* Line 242: torch.randn(5, 5) * 0.5 + 1.0, draw k.
SampleCircuits(k) ==
    LET r == Randn(SampleCount, InSize, k) IN
    [r EXCEPT !.rows = Tuple([i \in 1..r.n |->
                           Tuple([j \in 1..r.w |-> Quantize(r.rows[i][j], 2) + 1], r.w)],
                             r.n)]

CachedBatches == ClientBatches \cup {SampleCircuits(k) : k \in 0..MaxData}

\* ------------------------------------------------------------ forward

\* What forward hands back: the output, or an exception (raised) and no
\* output; h1 and h2 are the values that left the two hidden layers.
Failed(h1, h2) == [raised |-> TRUE, out |-> NoBatch, h1 |-> h1, h2 |-> h2]

Returned(z3, h1, h2) == [raised |-> z3.raised, out |-> z3.out, h1 |-> h1, h2 |-> h2]

\* Lines 14-15: x = self.layer3(x); return x.
OutputLayer(p, h1, h2) == Returned(Linear(p.layer3, h2), h1, h2)

AfterSecond(p, h1, z2) ==
    IF z2.raised THEN Failed(h1, NoBatch) ELSE OutputLayer(p, h1, Relu(z2.out))

\* Line 13: x = torch.relu(self.layer2(x)).
SecondLayer(p, h1) == AfterSecond(p, h1, Linear(p.layer2, h1))

AfterFirst(p, z1) ==
    IF z1.raised THEN Failed(NoBatch, NoBatch) ELSE SecondLayer(p, Relu(z1.out))

\* A plausible slip: the second hidden layer's values returned as the output.
ForwardNoOutputLayer(p, x) ==
    LET z1 == Linear(p.layer1, x) IN
    IF z1.raised
    THEN Failed(NoBatch, NoBatch)
    ELSE LET h1 == Relu(z1.out)
             z2 == Linear(p.layer2, h1)
             h2 == Relu(z2.out)
         IN  [raised |-> FALSE, out |-> h2, h1 |-> h1, h2 |-> h2]

\* A plausible slip: inference that keeps hidden state between calls (here the
\* count of calls made since the remembered one is added to the output).
ForwardStateful(p, x) ==
    LET f == AfterFirst(p, Linear(p.layer1, x)) IN
    IF f.raised THEN f
    ELSE [f EXCEPT !.out.rows = Tuple([r \in 1..f.out.n |->
                     Tuple([j \in 1..f.out.w |-> f.out.rows[r][j] + since], f.out.w)],
                                      f.out.n)]

\* SimpleCircuitAI.forward, lines 11-15: relu(layer1(x)), relu(layer2(.)),
\* layer3(.).  An exception of a layer propagates: nothing is returned.
Forward(p, x) == AfterFirst(p, Linear(p.layer1, x))

\* Forward on the batches of the library client and of the sample button,
\* evaluated once.
ForwardCache ==
    Table([p \in ParamSettings |-> Table([x \in CachedBatches |-> Forward(p, x)])])

ForwardOf(p, x) ==
    IF p \in ParamSettings /\ x \in CachedBatches
    THEN ForwardCache[p][x]
    ELSE Forward(p, x)

NoCall == [x |-> NoBatch, grad |-> FALSE, raised |-> FALSE,
           out |-> NoBatch, h1 |-> NoBatch, h2 |-> NoBatch]

CallRecord(x, grad, f) ==
    [x |-> x, grad |-> grad, raised |-> f.raised,
     out |-> f.out, h1 |-> f.h1, h2 |-> f.h2]

\* ai(x), i.e. nn.Module.__call__ -> forward, with the autograd mode of the
\* call site (grad is FALSE under torch.no_grad()); the record of the call.
Infer(p, x, grad) == CallRecord(x, grad, ForwardOf(p, x))

\* ----------------------------------------------------- library client

\* The call returns or raises; an exception is not caught: the caller's
\* script ends.  keep chooses the call that the history variable memo
\* remembers.
ClientReturn(call, keep) ==
    /\ last' = call
    /\ pc' = IF call.raised THEN "raised" ELSE "running"
    /\ memo' = IF keep THEN call ELSE memo
    /\ memoParams' = IF keep THEN params ELSE memoParams
    /\ since' = IF keep \/ memo = NoCall THEN 0
                ELSE IF since = 0 THEN 1 ELSE 2

\* One call ai(x) by a caller of the module (as the module's own test block
\* makes one).
ClientCall(x, grad, keep) ==
    /\ proc = "client"
    /\ pc = "running"
    /\ ClientReturn(Infer(params, x, grad), keep)
    /\ UNCHANGED <<proc, params, step, reports, inputs, targets,
                   design, printed, uiVars, vizVars>>

\* ------------------------------------------------------------ main.py

\* example_circuit: [[5.0, 1000.0, 0.0001, 1000.0, 0.01]].
ExampleCircuit ==
    [n |-> 1, w |-> 5,
     rows |-> << <<Quantize(5, 1), Quantize(1000, 1), Quantize(1, 10000),
                   Quantize(1000, 1), Quantize(1, 100)>> >>]

\* Lines 32-35: design[0][0], design[0][1] and design[0][2] are printed.
MainPrint(call) ==
    /\ last' = call
    /\ design' = call.out
    /\ IF call.raised \/ call.out.n < 1 \/ call.out.w < PrintedValues
       THEN /\ pc' = "raised"
            /\ printed' = <<>>
       ELSE /\ pc' = "done"
            /\ printed' = SubSeq(call.out.rows[1], 1, PrintedValues)

\* The script from ai(example_circuit), line 30, to its last print.
MainRun ==
    /\ proc = "main"
    /\ pc = "start"
    /\ MainPrint(Infer(params, ExampleCircuit, TRUE))
    /\ UNCHANGED <<proc, params, memo, memoParams, since, step, reports,
                   inputs, targets, uiVars, vizVars>>

\* ----------------------------------------------------- train_simple.py

\* torch.broadcast_tensors on one dimension: equal sizes, or one of them 1.
Broadcastable(a, b) == a = b \/ a = 1 \/ b = 1

Max(a, b) == IF a > b THEN a ELSE b

RECURSIVE SumTo(_, _)
SumTo(f, k) == IF k = 0 THEN 0 ELSE f[k] + SumTo(f, k - 1)

\* nn.MSELoss()(input, target): the operands are broadcast against each
\* other (which raises when a dimension differs and neither size is 1) and
\* the squared differences are averaged.
MSELoss(input, target) ==
    IF ~(Broadcastable(input.n, target.n) /\ Broadcastable(input.w, target.w))
    THEN [raised |-> TRUE, value |-> 0]
    ELSE LET n == Max(input.n, target.n)
             w == Max(input.w, target.w)
             at(t, i, j) == t.rows[IF t.n = 1 THEN 1 ELSE i][IF t.w = 1 THEN 1 ELSE j]
             sq == Tuple([c \in 1..(n * w) |->
                      LET i == ((c - 1) \div w) + 1
                          j == ((c - 1) % w) + 1
                          d == at(input, i, j) - at(target, i, j)
                      IN  d * d], n * w)
         IN  [raised |-> FALSE,
              value |-> IF n * w = 0 THEN 0 ELSE SumTo(sq, n * w) \div (n * w)]

\* Lines 24-30: backward, optimizer.step(), the report of every fifth step
\* and, after the last pass, the completion message.  optimizer.step() is
\* Adam's update of every parameter: the model lets it produce any
\* parameter setting.
TrainUpdate(call, loss) ==
    /\ last' = call
    /\ IF call.raised \/ loss.raised
       THEN /\ pc' = "raised"
            /\ UNCHANGED <<params, step, reports>>
       ELSE /\ params' \in ParamSettings
            /\ step' = step + 1
            /\ reports' = IF (step + 1) % ReportEvery = 0
                          THEN Append(reports, [step |-> step + 1, loss |-> loss.value])
                          ELSE reports
            /\ pc' = IF step + 1 = NumSteps THEN "done" ELSE "loop"

\* Line 23: loss = loss_fn(predictions, targets).
TrainLoss(call) == TrainUpdate(call, MSELoss(call.out, targets))

\* One pass of the loop body, lines 21-28, and, after the last pass, line 30.
TrainStep ==
    /\ proc = "train"
    /\ pc = "loop"
    /\ step < NumSteps
    /\ TrainLoss(Infer(params, inputs, TRUE))
    /\ UNCHANGED <<proc, memo, memoParams, since, inputs, targets, design, printed,
                   uiVars, vizVars>>

\* -------------------------------------------------- web_ui.py: text

\* Strings are sequences of one-character strings.

Digits == <<"0", "1", "2", "3", "4", "5", "6", "7", "8", "9">>

IsDigit(c) == \E d \in 1..10 : Digits[d] = c

DigitVal(c) == (CHOOSE d \in 1..10 : Digits[d] = c) - 1

\* \s of the re module, for the characters prompts are made of.
IsSpace(c) == c \in {" ", "\n", "\t"}

UpperCase == <<"A", "B", "C", "D", "E", "F", "G", "H", "I", "J", "K", "L", "M",
               "N", "O", "P", "Q", "R", "S", "T", "U", "V", "W", "X", "Y", "Z">>

LowerCase == <<"a", "b", "c", "d", "e", "f", "g", "h", "i", "j", "k", "l", "m",
               "n", "o", "p", "q", "r", "s", "t", "u", "v", "w", "x", "y", "z">>

\* str.lower()
Lower(s) ==
    Tuple([i \in 1..Len(s) |->
              IF \E u \in 1..26 : UpperCase[u] = s[i]
              THEN LowerCase[CHOOSE u \in 1..26 : UpperCase[u] = s[i]]
              ELSE s[i]], Len(s))

\* str.strip(): from the first to the last character that is no whitespace.
Strip(s) ==
    IF \A i \in 1..Len(s) : IsSpace(s[i]) THEN <<>>
    ELSE LET first == CHOOSE i \in 1..Len(s) :
                         ~IsSpace(s[i]) /\ \A j \in 1..(i - 1) : IsSpace(s[j])
             final == CHOOSE i \in 1..Len(s) :
                         ~IsSpace(s[i]) /\ \A j \in (i + 1)..Len(s) : IsSpace(s[j])
         IN  SubSeq(s, first, final)

\* s[i:].startswith(w)
StartsAt(s, w, i) ==
    /\ i + Len(w) - 1 <= Len(s)
    /\ SubSeq(s, i, i + Len(w) - 1) = w

\* w in s
Contains(s, w) == \E i \in 1..(Len(s) + 1) : StartsAt(s, w, i)

\* any(word in s for word in words)
AnyIn(words, s) == \E k \in 1..Len(words) : Contains(s, words[k])

\* The index after the longest run of digits that starts at i (i itself when
\* s[i] is no digit): what a greedy \d* consumes.
DigitsEnd(s, i) ==
    CHOOSE j \in i..(Len(s) + 1) :
        /\ \A m \in i..(j - 1) : IsDigit(s[m])
        /\ j = Len(s) + 1 \/ ~IsDigit(s[j])

\* The index after the longest run of whitespace that starts at i: \s*.
SpacesEnd(s, i) ==
    CHOOSE j \in i..(Len(s) + 1) :
        /\ \A m \in i..(j - 1) : IsSpace(s[m])
        /\ j = Len(s) + 1 \/ ~IsSpace(s[j])

\* int(s) of a string of digits
RECURSIVE ParseInt(_)
ParseInt(s) ==
    IF s = <<>> THEN 0
    ELSE 10 * ParseInt(SubSeq(s, 1, Len(s) - 1)) + DigitVal(s[Len(s)])

\* re.findall(r'\d+\.?\d*', s) from index i on: the non-overlapping matches,
\* left to right, each as greedy as the pattern allows.
RECURSIVE FindNumbersFrom(_, _)
FindNumbersFrom(s, i) ==
    IF ~\E a \in i..Len(s) : IsDigit(s[a]) THEN <<>>
    ELSE LET a == CHOOSE a \in i..Len(s) :
                     IsDigit(s[a]) /\ \A m \in i..(a - 1) : ~IsDigit(s[m])
             j == DigitsEnd(s, a)
             k == IF j <= Len(s) /\ s[j] = "." THEN DigitsEnd(s, j + 1) ELSE j
         IN  <<SubSeq(s, a, k - 1)>> \o FindNumbersFrom(s, k)

\* float(x) of a match of \d+\.?\d*, in thousandths (exact for at most three
\* decimals, which is what the prompts of the model carry).
FloatMilli(x) ==
    LET j == DigitsEnd(x, 1)
        frac == IF j < Len(x) THEN SubSeq(x, j + 1, Len(x)) ELSE <<>>
        pad == SubSeq(frac \o <<"0", "0", "0">>, 1, 3)
    IN  1000 * ParseInt(SubSeq(x, 1, j - 1)) + ParseInt(pad)

RECURSIVE SelectPositive(_)
SelectPositive(q) ==
    IF q = <<>> THEN <<>>
    ELSE IF Head(q) > 0 THEN <<Head(q)>> \o SelectPositive(Tail(q))
    ELSE SelectPositive(Tail(q))

\* [float(x) for x in re.findall(r'\d+\.?\d*', prompt) if float(x) > 0]
PositiveNumbers(s) ==
    LET found == FindNumbersFrom(s, 1) IN
    SelectPositive(Tuple([k \in 1..Len(found) |-> FloatMilli(found[k])], Len(found)))

\* The alternatives of the frequency pattern, in the order of the pattern.
FreqUnits ==
    <<<<"k", "h", "z">>, <<"h", "z">>, <<"m", "h", "z">>,
      <<"k", "H", "z">>, <<"H", "z">>, <<"M", "H", "z">>>>

\* Whether (\d+)\s*(?:khz|hz|mhz|kHz|Hz|MHz) matches at index i.
FreqMatchAt(s, i) ==
    /\ i <= Len(s)
    /\ IsDigit(s[i])
    /\ \E u \in 1..Len(FreqUnits) :
          StartsAt(s, FreqUnits[u], SpacesEnd(s, DigitsEnd(s, i)))

\* re.search of the frequency pattern: the leftmost match; group(1) and the
\* index at which the unit starts.
FreqSearch(s) ==
    IF \E i \in 1..Len(s) : FreqMatchAt(s, i)
    THEN LET i == CHOOSE a \in 1..Len(s) :
                     /\ FreqMatchAt(s, a)
                     /\ \A b \in 1..(a - 1) : ~FreqMatchAt(s, b)
         IN  [found |-> TRUE, group1 |-> SubSeq(s, i, DigitsEnd(s, i) - 1),
              unitAt |-> SpacesEnd(s, DigitsEnd(s, i))]
    ELSE [found |-> FALSE, group1 |-> <<>>, unitAt |-> 0]

\* --------------------------------------- web_ui.py: prompt heuristics

BuckWords == <<<<"b", "u", "c", "k">>, <<"s", "t", "e", "p", "-", "d", "o", "w", "n">>, <<"s", "t", "e", "p", " ", "d", "o", "w", "n">>>>

FilterWords == <<<<"f", "i", "l", "t", "e", "r">>, <<"l", "o", "w", "p", "a", "s", "s">>, <<"h", "i", "g", "h", "p", "a", "s", "s">>, <<"c", "u", "t", "o", "f", "f">>>>

LedWords == <<<<"l", "e", "d">>, <<"d", "r", "i", "v", "e", "r">>, <<"l", "i", "g", "h", "t">>, <<"d", "i", "o", "d", "e">>>>

AmplifierWords == <<<<"a", "m", "p", "l", "i", "f", "i", "e", "r">>, <<"a", "m", "p">>, <<"g", "a", "i", "n">>, <<"o", "p", "a", "m", "p">>>>

OscillatorWords == <<<<"o", "s", "c", "i", "l", "l", "a", "t", "o", "r">>, <<"c", "l", "o", "c", "k">>, <<"t", "i", "m", "e", "r">>, <<"5", "5", "5">>>>

Min(a, b) == IF a < b THEN a ELSE b

NoSuggestions == [k \in {} |-> 0]

\* Quantities are fixed-point integers: voltage in mV, resistance in
\* milliohm, capacitance in nF, frequency in Hz, current in mA.

\* Lines 40-50: the numbers of the prompt as input voltage and load.
BuckSuggestions(text) ==
    LET numbers == PositiveNumbers(text) IN
    IF numbers = <<>> THEN NoSuggestions
    ELSE ("voltage" :> (IF numbers[1] <= 24000 THEN numbers[1] ELSE 12000))
         @@ (IF Len(numbers) > 1 /\ numbers[2] < numbers[1]
             THEN "resistance" :> ((numbers[1] - numbers[2]) * 100)
             ELSE NoSuggestions)

\* Lines 60-65, for a prompt the pattern matches: the number found, scaled
\* when the prompt contains "khz" (else when it contains "mhz"), capped.
FilterFrequency(prompt_lower) ==
    LET freq_match == FreqSearch(prompt_lower)
        freq == ParseInt(freq_match.group1)
        scaled == IF Contains(prompt_lower, <<"k", "h", "z">>) \/ Contains(prompt_lower, <<"k", "H", "z">>)
                  THEN freq * 1000
                  ELSE IF Contains(prompt_lower, <<"m", "h", "z">>) \/ Contains(prompt_lower, <<"M", "H", "z">>)
                  THEN freq * 1000000
                  ELSE freq
    IN  Min(scaled, 1000000)

\* Lines 58-66.
FilterSuggestions(prompt_lower) ==
    IF FreqSearch(prompt_lower).found
    THEN "frequency" :> FilterFrequency(prompt_lower)
    ELSE NoSuggestions

\* Lines 29-88: circuit_type and auto_suggestions of a prompt.
Classify(text) ==
    LET prompt_lower == Lower(text) IN
    IF ~(text # <<>> /\ Len(Strip(text)) > 10)
    THEN [circuit_type |-> "custom", auto_suggestions |-> NoSuggestions]
    ELSE IF AnyIn(BuckWords, prompt_lower)
    THEN [circuit_type |-> "buck", auto_suggestions |-> BuckSuggestions(text)]
    ELSE IF AnyIn(FilterWords, prompt_lower)
    THEN [circuit_type |-> "filter",
          auto_suggestions |-> FilterSuggestions(prompt_lower)]
    ELSE IF AnyIn(LedWords, prompt_lower)
    THEN [circuit_type |-> "led_driver",
          auto_suggestions |-> ("voltage" :> 3300) @@ ("current" :> 20)]
    ELSE IF AnyIn(AmplifierWords, prompt_lower)
    THEN [circuit_type |-> "amplifier",
          auto_suggestions |-> ("voltage" :> 12000) @@ ("frequency" :> 10000)]
    ELSE IF AnyIn(OscillatorWords, prompt_lower)
    THEN [circuit_type |-> "oscillator",
          auto_suggestions |-> ("voltage" :> 5000) @@ ("frequency" :> 1000)]
    ELSE [circuit_type |-> "custom", auto_suggestions |-> NoSuggestions]

\* dict.get(key, default)
Get(d, key, default) == IF key \in DOMAIN d THEN d[key] ELSE default

\* Lines 94-97 (and the fixed default of the capacitance slider, line 101).
Defaults(suggested) ==
    [voltage |-> Get(suggested, "voltage", 5000),
     resistance |-> Get(suggested, "resistance", 1000000),
     capacitance |-> 100000,
     frequency |-> Get(suggested, "frequency", 1000),
     current |-> Get(suggested, "current", 10)]

\* The sliders in the order the script builds them, lines 99-103.
SliderOrder == <<"voltage", "resistance", "capacitance", "frequency", "current">>

\* min_value and max_value of each slider, lines 99-103.
SliderMin ==
    [voltage |-> 1000, resistance |-> 10000, capacitance |-> 1,
     frequency |-> 1, current |-> 1]

SliderMax ==
    [voltage |-> 24000, resistance |-> 10000000, capacitance |-> 1000000,
     frequency |-> 1000000, current |-> 1000]

\* st.slider accepts a default only between min_value and max_value; it
\* raises StreamlitAPIException otherwise.
SliderAccepts(name, value) ==
    SliderMin[name] <= value /\ value <= SliderMax[name]

\* -------------------------------------------------- web_ui.py: prompts

DefaultPrompt ==
    <<
      "E", "x", "a", "m", "p", "l", "e", ":", " ", "B", "u", "c",
      "k", " ", "c", "o", "n", "v", "e", "r", "t", "e", "r", " ",
      "1", "2", "V", " ", "t", "o", " ", "5", "V", ",", " ", "1",
      "A", " ", "o", "u", "t", "p", "u", "t", "\n", "O", "r", ":",
      " ", "L", "o", "w", "-", "p", "a", "s", "s", " ", "f", "i",
      "l", "t", "e", "r", ",", " ", "1", "k", "H", "z", " ", "c",
      "u", "t", "o", "f", "f", "\n", "O", "r", ":", " ", "L", "E",
      "D", " ", "d", "r", "i", "v", "e", "r", " ", "f", "o", "r",
      " ", "3", ".", "3", "V", ",", " ", "2", "0", "m", "A">>

\* The descriptions a user types are made of a word for the circuit and a
\* phrase with its quantities (an empty one is left out), joined by a space.
TypeWords ==
    {DefaultPrompt, <<>>,
     <<"B", "u", "c", "k", " ", "c", "o", "n", "v", "e", "r", "t", "e", "r">>,
     <<"l", "o", "w", "p", "a", "s", "s", " ", "f", "i", "l", "t", "e", "r">>,
     <<"l", "e", "d", " ", "d", "r", "i", "v", "e", "r">>,
     <<"a", "m", "p", "l", "i", "f", "i", "e", "r">>,
     <<"t", "i", "m", "e", "r">>}

QuantityPhrases ==
    {<<>>,
     <<"1", "2", "V", " ", "t", "o", " ", "5", "V">>,
     <<"0", ".", "5", "v">>,
     <<"5", "0", "0", "v", " ", "t", "o", " ", "5", "v">>,
     <<"5", "0", "h", "z">>,
     <<"5", "0", " ", "H", "z", " ", "n", "o", "t", " ", "2", "k", "h", "z">>,
     <<"3", "M", "H", "z">>,
     <<"0", "h", "z">>}

PromptSpace == TypeWords \X QuantityPhrases

RECURSIVE Join(_)
Join(words) ==
    IF words = <<>> THEN <<>>
    ELSE LET rest == Join(Tail(words)) IN
         IF Head(words) = <<>> THEN rest
         ELSE IF rest = <<>> THEN Head(words)
         ELSE Head(words) \o <<" ">> \o rest

\* Classification and slider defaults of every prompt of the model.
WithDefaults(c) ==
    [circuit_type |-> c.circuit_type,
     auto_suggestions |-> c.auto_suggestions,
     defaults |-> Defaults(c.auto_suggestions)]

Parsed == Table([p \in PromptSpace |-> WithDefaults(Classify(Join(p)))])

\* ------------------------------------------- circuit_3d_engine.py

\* Coordinates are fixed-point integers, in tenths.

\* Lines 28-33: the four places on the board.
Positions == <<<<5, 5, 1>>, <<15, 5, 1>>, <<20, 10, 1>>, <<5, 15, 1>>>>

\* Component3D.create_pcb_board(): the board, with its default size and place.
CreatePcbBoard == [name |-> "PCB Board"]

\* Component3D.create_resistor(value_ohms, position)
CreateResistor(value_ohms, position) ==
    [name |-> "Resistor", value |-> value_ohms, position |-> position]

\* Component3D.create_capacitor(value_farads, position)
CreateCapacitor(value_farads, position) ==
    [name |-> "Capacitor", value |-> value_farads, position |-> position]

\* Sum of the squares of the entries of end - start.
SquaredDistance(start, end) ==
    (end[1] - start[1]) * (end[1] - start[1])
    + (end[2] - start[2]) * (end[2] - start[2])
    + (end[3] - start[3]) * (end[3] - start[3])

\* _create_wire, lines 66-94: a cylinder placed at start, as long as the
\* distance from start to end (kept as its square).
CreateWire(start, end) ==
    [name |-> "Wire", start |-> start, length2 |-> SquaredDistance(start, end)]

\* _add_wires, lines 56-64: a wire for every two consecutive positions,
\* appended to self.traces.
AddWires(tr, positions) ==
    tr \o Tuple([i \in 1..(Len(positions) - 1) |->
                    CreateWire(positions[i], positions[i + 1])], Len(positions) - 1)

\* Lines 44-49.
AddCapacitor(tr, values) ==
    IF Len(values) > 1
    THEN Append(tr, CreateCapacitor(values[2], Positions[2]))
    ELSE tr

\* Line 38: values[0] * 1000 if values[0] < 1 else values[0], kept as the
\* value and its factor (the product of a float has no integer bound).
ValueOhms(v) == [of |-> v, times |-> IF v < 1 THEN 1000 ELSE 1]

\* Lines 36-41.
AddResistor(tr, values) ==
    IF Len(values) > 0
    THEN Append(tr, CreateResistor(ValueOhms(values[1]), Positions[1]))
    ELSE tr

\* Lines 24-25.
AddPcb(tr) == Append(tr, CreatePcbBoard)

\* create_circuit_from_ai, lines 21-52: self.traces after the call on a
\* visualizer whose self.traces was tr.
TracesAfterCall(tr, values) ==
    AddWires(AddCapacitor(AddResistor(AddPcb(tr), values), values), Positions)

\* _create_3d_scene, lines 96-113: a figure of all of self.traces.
Create3dScene(tr) == [title |-> "3D Circuit Visualization", data |-> tr]

NoScene == [title |-> "", data |-> <<>>]

\* create_circuit_from_ai(values) on a visualizer whose self.traces is tr.
CreateCircuitFromAi(tr, values) ==
    /\ ai_output' = values
    /\ traces' = TracesAfterCall(tr, values)
    /\ scene' = Create3dScene(traces')

\* No visualizer is made.
NoVisualizer ==
    /\ ai_output' = <<>>
    /\ traces' = <<>>
    /\ scene' = NoScene

RECURSIVE ListsOf(_)
ListsOf(n) ==
    IF n = 0 THEN {<<>>}
    ELSE ListsOf(n - 1) \cup {Append(q, v) : q \in ListsOf(n - 1), v \in {0, 2}}

\* The lists a caller passes as ai_output: up to MaxValues values, below 1
\* and above.
ValueLists == ListsOf(MaxValues)

\* One call create_circuit_from_ai(values) by a holder of one visualizer.
VizCall(values) ==
    /\ proc = "viz"
    /\ pc = "running"
    /\ vizCalls < MaxCalls
    /\ vizCalls' = vizCalls + 1
    /\ CreateCircuitFromAi(traces, values)
    /\ UNCHANGED <<proc, pc, params, last, memo, memoParams, since, step, reports,
                   inputs, targets, design, printed, uiVars>>

\* ------------------------------------------------ web_ui.py: the run

\* Bound on the sliders that hold a user-set value at one time.
MaxMoved == 1

NoValue == 0 - 1

NoSliders == [name \in {"voltage", "resistance", "capacitance", "frequency", "current"}
                 |-> NoValue]

\* The index in SliderOrder of the first slider whose default st.slider
\* refuses, 6 when every slider is built.
FirstRefused(defaults) ==
    IF \E i \in 1..5 : ~SliderAccepts(SliderOrder[i], defaults[SliderOrder[i]])
    THEN CHOOSE i \in 1..5 :
            /\ ~SliderAccepts(SliderOrder[i], defaults[SliderOrder[i]])
            /\ \A j \in 1..(i - 1) : SliderAccepts(SliderOrder[j], defaults[SliderOrder[j]])
    ELSE 6

SliderIndex(name) == CHOOSE i \in 1..5 : SliderOrder[i] = name

BuildUpTo(refused, defaults, oldDefaults, oldSliders, oldMoved) ==
    [values |-> [name \in DOMAIN NoSliders |->
                    IF SliderIndex(name) >= refused THEN NoValue
                    ELSE IF name \in oldMoved /\ defaults[name] = oldDefaults[name]
                    THEN oldSliders[name]
                    ELSE defaults[name]],
     moved |-> {name \in oldMoved :
                   SliderIndex(name) < refused /\ defaults[name] = oldDefaults[name]},
     raised |-> refused <= 5]

\* Lines 99-103 in a run whose defaults are `defaults`: a slider keeps the
\* value the user gave it while its default is the one of the run before
\* (streamlit then takes it for the same widget), and shows its default
\* otherwise.  The script stops at the first slider that raises.
BuildSliders(defaults, oldDefaults, oldSliders, oldMoved) ==
    BuildUpTo(FirstRefused(defaults), defaults, oldDefaults, oldSliders, oldMoved)

\* Line 120: torch.tensor([[voltage, resistance, capacitance, frequency,
\* current]], dtype=torch.float32), on the model's integer grid.
FeatureTensor(sl) ==
    [n |-> 1, w |-> 5,
     rows |-> << <<Quantize(sl.voltage, 1000), Quantize(sl.resistance, 1000),
                   Quantize(sl.capacitance, 1000000000), sl.frequency,
                   Quantize(sl.current, 1000)>> >>]

\* Lines 191-198: st.progress(value/100) for design[0][0..2] * 100 accepts a
\* float between 0.0 and 1.0 only.
ProgressAccepts(out) ==
    /\ out.n >= 1
    /\ out.w >= 3
    /\ \A i \in 1..3 : 0 <= out.rows[1][i] /\ out.rows[1][i] <= 1

\* Lines 124-237: the design is shown in the three tabs; the second one
\* holds the scene of a new visualizer, lines 154-158.
DesignShown(call) ==
    /\ last' = call
    /\ design' = call.out
    /\ IF call.raised THEN NoVisualizer
       ELSE CreateCircuitFromAi(<<>>, call.out.rows[1])
    /\ pc' = IF call.raised THEN "raised"
             ELSE IF ProgressAccepts(call.out) THEN "idle"
             ELSE "raised_progress"

\* Lines 243-253: the sample designs are shown.
SamplesShown(call) ==
    /\ last' = call
    /\ design' = NoBatch
    /\ NoVisualizer
    /\ pc' = IF call.raised THEN "raised" ELSE "idle"

\* Lines 99-253: the sliders, then the handler of the button pressed.
Widgets(built, button, k) ==
    /\ sliders' = built.values
    /\ moved' = built.moved
    /\ IF built.raised
       THEN /\ pc' = "raised_slider"
            /\ last' = NoCall
            /\ design' = NoBatch
            /\ NoVisualizer
       ELSE IF button = "design"
       THEN DesignShown(Infer(params, FeatureTensor(built.values), FALSE))
       ELSE IF button = "sample"
       THEN SamplesShown(Infer(params, SampleCircuits(k), TRUE))
       ELSE /\ pc' = "idle"
            /\ last' = NoCall
            /\ design' = NoBatch
            /\ NoVisualizer

\* Lines 29-103.
Render(parsed, sl, mv, button, k) ==
    /\ circuit_type' = parsed.circuit_type
    /\ auto_suggestions' = parsed.auto_suggestions
    /\ Widgets(BuildSliders(parsed.defaults, Defaults(auto_suggestions), sl, mv),
               button, k)

\* A plausible slip: a button handler that also runs an optimizer step on the
\* cached network.
ScriptRunOptimizing(p, sl, mv, button, k) ==
    /\ prompt' = p
    /\ Render(Parsed[p], sl, mv, button, k)
    /\ params' \in IF button = "" THEN {params} ELSE ParamSettings
    /\ UNCHANGED <<proc, memo, memoParams, since, step, reports,
                   inputs, targets, printed, vizCalls>>

\* One run of the script, top to bottom, with prompt p, the slider state sl
\* and mv, and the button pressed ("", "design" or "sample"; k is the draw
\* of the sample circuits).
ScriptRun(p, sl, mv, button, k) ==
    /\ prompt' = p
    /\ Render(Parsed[p], sl, mv, button, k)
    /\ UNCHANGED <<proc, params, memo, memoParams, since, step, reports,
                   inputs, targets, printed, vizCalls>>

\* The page is opened: the first run, with the text area's initial text.
UIOpen ==
    /\ proc = "ui"
    /\ pc = "start"
    /\ ScriptRun(prompt, sliders, moved, "", 0)

\* The user replaces one part of the description; the script runs again.
UIEditPrompt(slot, word) ==
    /\ proc = "ui"
    /\ pc # "start"
    /\ word # prompt[slot]
    /\ ScriptRun([prompt EXCEPT ![slot] = word], sliders, moved, "", 0)

\* Where the sidebar (sliders and design button) was rendered by the last run.
SidebarRendered == pc \in {"idle", "raised_progress"}

\* The user drags a slider to an end of its range; the script runs again.
UISlide(name, value) ==
    /\ proc = "ui"
    /\ SidebarRendered
    /\ Cardinality(moved \cup {name}) <= MaxMoved
    /\ sliders[name] # value
    /\ ScriptRun(prompt, [sliders EXCEPT ![name] = value], moved \cup {name}, "", 0)

\* The "Design Circuit" button, lines 117-237.
UIClickDesign ==
    /\ proc = "ui"
    /\ SidebarRendered
    /\ ScriptRun(prompt, sliders, moved, "design", 0)

\* The "Generate Sample Designs" button, lines 241-253; it is rendered only
\* by a run that got to the end of the script.
UIClickSample(k) ==
    /\ proc = "ui"
    /\ pc = "idle"
    /\ ScriptRun(prompt, sliders, moved, "sample", k)

\* ------------------------------------------------------- specification

Procs == {"client", "main", "train", "ui", "viz"}

Init ==
    /\ proc \in Procs
    /\ pc = CASE proc \in {"client", "viz"} -> "running"
              [] proc = "train" -> "loop"
              [] OTHER -> "start"
    /\ params \in ParamSettings
    /\ last = NoCall
    /\ memo = NoCall
    /\ memoParams = <<>>
    /\ since = 0
    /\ step = 0
    /\ reports = <<>>
    /\ \E d \in 0..MaxData :
          IF proc = "train"
          THEN /\ inputs = Randn(NumSamples, InSize, d)
               /\ targets = Randn(NumSamples, TargetWidth, d + 1)
          ELSE /\ inputs = NoBatch
               /\ targets = NoBatch
    /\ design = NoBatch
    /\ printed = <<>>
    /\ prompt = <<DefaultPrompt, <<>>>>
    /\ circuit_type = "custom"
    /\ auto_suggestions = NoSuggestions
    /\ sliders = NoSliders
    /\ moved = {}
    /\ traces = <<>>
    /\ scene = NoScene
    /\ ai_output = <<>>
    /\ vizCalls = 0

Next ==
    \/ \E x \in ClientBatches, grad \in BOOLEAN, keep \in BOOLEAN : ClientCall(x, grad, keep)
    \/ MainRun
    \/ TrainStep
    \/ UIOpen
    \/ \E word \in TypeWords : UIEditPrompt(1, word)
    \/ \E phrase \in QuantityPhrases : UIEditPrompt(2, phrase)
    \/ \E name \in DOMAIN NoSliders, end \in {"min", "max"} :
          UISlide(name, IF end = "min" THEN SliderMin[name] ELSE SliderMax[name])
    \/ UIClickDesign
    \/ \E k \in 0..MaxData : UIClickSample(k)
    \/ \E values \in ValueLists : VizCall(values)

Spec == Init /\ [][Next]_vars

\* --------------------------------------------------------- properties

EntriesOf(t) == {t.rows[r][j] : r \in 1..t.n, j \in 1..t.w}

\* C1: for every N >= 0, a call of the inference function with a batch of N
\* feature vectors of width 5 returns a batch of exactly N output vectors,
\* each of the output size of the last layer.
C1OutputShape ==
    (last # NoCall /\ last.x.w = InSize) =>
        /\ ~last.raised
        /\ last.out.n = last.x.n
        /\ Len(last.out.rows) = last.x.n
        /\ last.out.w = params.layer3.outF
        /\ \A r \in 1..Len(last.out.rows) : Len(last.out.rows[r]) = params.layer3.outF

\* An empty batch was answered with an empty batch, and then a batch of
\* MaxBatch vectors with MaxBatch output vectors.
C1Witness ==
    /\ proc = "client"
    /\ memo # NoCall /\ memo.x.w = InSize /\ memo.x.n = 0 /\ memo.out.n = 0
    /\ last.x.w = InSize /\ last.x.n = MaxBatch /\ Len(last.out.rows) = MaxBatch

\* C2: started on its 10 samples, the training script runs all 20 steps and
\* reaches 'Training Complete' without raising: it never stops in the loop,
\* and it is done only after step 20.
C2TrainingCompletes ==
    proc = "train" =>
        /\ pc \in {"loop", "done"}
        /\ pc = "done" <=> step = NumSteps

\* C3: the design output of the command-line entry point has exactly 3
\* values: the three values printed are the whole output.
C3DesignHasThreeValues ==
    (proc = "main" /\ pc = "done") =>
        /\ design.n = 1
        /\ design.w = PrintedValues
        /\ printed = design.rows[1]

C4Step ==
    /\ ~(last # NoCall /\ last.x.w # InSize)
    /\ (last' # NoCall /\ last'.x.w # InSize) =>
          /\ last'.raised
          /\ last'.out = NoBatch
          /\ params' = params
          /\ pc' = "raised"

\* C4: a call with a batch whose feature width is not 5 raises: no output is
\* returned, the parameters are what they were before the call, and the
\* caller takes no further step after it (no retry, no recovery).
C4WrongWidthFails == [][C4Step]_vars

\* After a call that returned, a call with a wrong width has raised.
C4Witness ==
    /\ proc = "client"
    /\ memo # NoCall /\ ~memo.raised
    /\ since > 0
    /\ last.x.w # InSize /\ last.raised /\ last.out = NoBatch
    /\ pc = "raised"
    /\ params = memoParams

\* C5: every value that leaves the first hidden layer and every value that
\* leaves the second hidden layer is >= 0, whatever the batch and the
\* parameters; the output layer's values may be negative.
C5HiddenNonNegative ==
    last # NoCall =>
        /\ \A v \in EntriesOf(last.h1) : v >= 0
        /\ \A v \in EntriesOf(last.h2) : v >= 0

\* A call whose hidden layers clamped a value to zero and whose output has a
\* negative value.
C5Witness ==
    /\ last # NoCall /\ ~last.raised /\ last.x.n > 0
    /\ 0 \in EntriesOf(last.h1)
    /\ 0 \in EntriesOf(last.h2)
    /\ \E v \in EntriesOf(last.out) : v < 0

\* C6: the parameters change only in a pass of the training loop that gets
\* to its optimizer update; every other step, and so every inference call of
\* the entry point, of the design button and of the sample button, leaves
\* them as they are.
C6OnlyTrainingWrites ==
    [][params' = params
       \/ (proc = "train" /\ pc = "loop" /\ step' = step + 1 /\ ~last'.raised)]_vars

\* The sample button has made its inference call, with gradients enabled.
C6Witness ==
    /\ proc = "ui"
    /\ last # NoCall /\ ~last.raised /\ last.grad
    /\ last.x.n = SampleCount
    /\ params \in ParamSettings

ReportedSteps == [i \in 1..Len(reports) |-> reports[i].step]

\* C8: the loss is reported after steps 5, 10, 15 and 20 and at no other
\* step, each report once its step's update is done and before the next step,
\* and the script ends with all four reports made.
C8ReportsEveryFifthStep ==
    proc = "train" =>
        /\ Len(reports) = step \div ReportEvery
        /\ \A i \in 1..Len(reports) : reports[i].step = ReportEvery * i
        /\ pc # "loop" => (pc = "done" /\ ReportedSteps = <<5, 10, 15, 20>>)

\* C9: whatever the prompt, every slider default lies within the bounds of
\* its slider, and the script builds all its sliders.
C9DefaultsWithinBounds ==
    (proc = "ui" /\ pc # "start") =>
        /\ \A i \in 1..Len(SliderOrder) :
              SliderAccepts(SliderOrder[i], Defaults(auto_suggestions)[SliderOrder[i]])
        /\ pc # "raised_slider"
        /\ \A name \in DOMAIN sliders : SliderAccepts(name, sliders[name])

\* The factor of the frequency unit that starts at index i of s.
UnitScaleAt(s, i) ==
    IF StartsAt(s, <<"k", "h", "z">>, i) THEN 1000
    ELSE IF StartsAt(s, <<"m", "h", "z">>, i) THEN 1000000
    ELSE 1

\* The first whole number followed by a frequency unit, scaled by that unit,
\* capped at 1 MHz.
FirstFrequency(s) ==
    Min(ParseInt(FreqSearch(s).group1) * UnitScaleAt(s, FreqSearch(s).unitAt), 1000000)

\* C10: for a prompt classified as a filter that has a whole number followed
\* by a frequency unit, the suggested cutoff is that first number scaled by
\* the unit that follows it, capped at 1 MHz, whatever other unit words the
\* prompt has.
C10CutoffScaledByItsUnit ==
    (proc = "ui" /\ pc # "start" /\ circuit_type = "filter"
        /\ FreqSearch(Lower(Join(prompt))).found) =>
        /\ "frequency" \in DOMAIN auto_suggestions
        /\ auto_suggestions["frequency"] = FirstFrequency(Lower(Join(prompt)))

\* The traces create_circuit_from_ai is to build for one output: the board,
\* the resistor, the capacitor, and the three wires between the four
\* positions.
TracesOfOutput(values) == TracesAfterCall(<<>>, values)

\* C11: the scene a call of create_circuit_from_ai returns holds the traces
\* built for that call's output and no others: one board, one resistor when
\* the output has a value, one capacitor when it has two, and three wires,
\* in this order; no trace of an earlier call on the visualizer is in it.
C11SceneOfThisCallOnly ==
    scene # NoScene =>
        /\ scene.data = TracesOfOutput(ai_output)
        /\ Len(scene.data) = 1 + (IF Len(ai_output) > 0 THEN 1 ELSE 0)
                               + (IF Len(ai_output) > 1 THEN 1 ELSE 0) + 3

====
